---- MODULE Spec2Model ----
(***************************************************************************)
(* State-machine model of js/main.js: the timeline widget, the sidebar,    *)
(* the two modals and the global Escape router.  Every DOM event handler   *)
(* runs to completion, so one action is one dispatched event: all the      *)
(* listeners registered for it run, in registration order.                 *)
(* The second part models images/make_thumbnails.ps1: one action per       *)
(* iteration of its foreach loop.                                          *)
(***************************************************************************)
EXTENDS Integers, FiniteSets, Sequences, TLC

\* ------------------------------------------------------------------------
\* Bounds and program constants
\* ------------------------------------------------------------------------

\* Viewport widths range over MobileBreakpoint-WidthSpan .. MobileBreakpoint+WidthSpan.
WidthSpan == 1

\* Timeline.isMobile: window.innerWidth <= 768
MobileBreakpoint == 768

\* Timeline.totalSections
totalSections == 3

Widths == (MobileBreakpoint - WidthSpan)..(MobileBreakpoint + WidthSpan)

\* data-section attribute values of the .timeline-section-area hot-zones
SectionAreas == {"1", "2", "3"}

\* The modal elements wired by Modal.setup
Modals == {"achievementModal", "partnerModal"}

\* e.key values delivered to the keydown listeners
Keys == {"ArrowLeft", "ArrowRight", "Escape", "Enter"}

ZoomSectionClasses == {"zoom-section-1", "zoom-section-2", "zoom-section-3"}

\* Scroll positions range over 0 and ScrollThreshold-ScrollSpan .. ScrollThreshold+ScrollSpan.
ScrollSpan == 1

\* Navigation.initNavbarScroll: window.scrollY > 100
ScrollThreshold == 100

ScrollPositions ==
    {0} \cup ((ScrollThreshold - ScrollSpan)..(ScrollThreshold + ScrollSpan))

\* Values navbar.offsetHeight can have when a listener reads it (layout of
\* the fixed header)
NavbarHeights == {60, 80}

\* The links of the page: href and whether the link is inside #sidebarNav.
Links ==
    {[href |-> "#about", inSidebar |-> TRUE],
     [href |-> "#contact", inSidebar |-> TRUE],
     [href |-> "#missing", inSidebar |-> TRUE],
     [href |-> "impressum.html", inSidebar |-> TRUE],
     [href |-> "#sponsorship", inSidebar |-> FALSE],
     [href |-> "#contact", inSidebar |-> FALSE],
     [href |-> "#missing", inSidebar |-> FALSE]}

\* The hrefs matched by the selector a[href^="#"]
InPageHrefs == {"#about", "#contact", "#sponsorship", "#missing"}

\* Document-relative top of the element document.querySelector(href) finds;
\* an href outside the domain has no such element.
TargetTops == [h \in {"#about", "#contact", "#sponsorship"} |->
                  IF h = "#about" THEN 50
                  ELSE IF h = "#sponsorship" THEN 400 ELSE 900]

\* At most MaxElements elements carry a data-i18n attribute.
MaxElements == 2

\* Entries of LanguageSwitcher.translations.de: two footer entries and the
\* achievement entries of 'euro' (all six fields) and 'swiss' (no quote).
\* The quote of 'euro' and the description of 'swiss' are cut after their
\* first sentence; umlauts are written ae, ue.
TranslationsDe ==
    ("footer.values" :> "Werte") @@ ("footer.contact" :> "Kontakt")
    @@ ("achievements.euro.category" :> "Europameisterschaft")
    @@ ("achievements.euro.title" :> "Europameisterschaft 2025")
    @@ ("achievements.euro.location" :> "Jesolo, Italien")
    @@ ("achievements.euro.result" :> "3 Kaempfe, 3 Siege --> Goldmedaille")
    @@ ("achievements.euro.description" :>
            "9 Teilnehmerinnen in der Kategorie. Jeden Kampf dominiert und den Titel geholt.")
    @@ ("achievements.euro.quote" :>
            "Ich habe den ganzen Sommer fuer diesen Wettkampf trainiert.")
    @@ ("achievements.swiss.category" :> "Schweizer Meisterschaften")
    @@ ("achievements.swiss.title" :> "Schweizer Meisterschaften 2024")
    @@ ("achievements.swiss.location" :> "Schweiz")
    @@ ("achievements.swiss.result" :> "Nationale Meisterin (WAKO & SCOS)")
    @@ ("achievements.swiss.description" :>
            "WAKO Meisterschaften: Die Konkurrenz bei den Schweizer WAKO Meisterschaften dominiert, gute Technik und Kondition gezeigt.")

\* data-i18n keys of the page; "footer.imprint" has no entry in the table.
I18nKeys == {"footer.values", "footer.contact", "footer.imprint"}

\* Authored texts of the translatable elements
AuthoredTexts == {"", "Values", "Contact"}

\* The [data-i18n] elements of a page in document order, as authored.
Pages ==
    UNION {[1..n -> [key : I18nKeys, text : AuthoredTexts]] : n \in 0..MaxElements}

\* What localStorage holds under 'preferredLanguage': no entry or one string.
StoredPreferences == {{}, {"de"}, {"en"}, {"fr"}}

DefaultPage == <<[key |-> "footer.contact", text |-> "Contact"]>>

\* The fields of an achievement card shown in the achievement modal
Fields == {"category", "title", "location", "result", "description", "quote"}

\* The .achievement-card elements of the page with their data-* attributes;
\* an attribute that is absent or empty is "".  'euro' has every entry in the
\* table, 'swiss' has no quote entry, 'plain' carries no data-achievement.
AchievementCards ==
    ("euro" :> [achievement |-> "euro", category |-> "European Championship",
                title |-> "European Championship 2025",
                location |-> "Jesolo, Italy", result |-> "Gold medal",
                description |-> "Dominated every fight.",
                quote |-> "I trained all summer."])
    @@ ("swiss" :> [achievement |-> "swiss", category |-> "Swiss Championships",
                    title |-> "Swiss Championships 2024",
                    location |-> "Switzerland", result |-> "National champion",
                    description |-> "", quote |-> "Hard work pays off."])
    @@ ("plain" :> [achievement |-> "", category |-> "Seminar",
                    title |-> "Seminar 2023", location |-> "Zurich",
                    result |-> "Participation", description |-> "A seminar.",
                    quote |-> ""])

\* The card clicked where the page has a single achievement card.
DefaultCard == "euro"

\* make_thumbnails.ps1: $MaxSize
MaxSize == 300

\* A directory holds at most MaxFiles image files.
MaxFiles == 2

\* The times at which the script is started
Times == {0, 1, 2}

\* LastWriteTime values of the sources: before, at or after a start of the
\* script
SourceTimes == {0, 1}

\* Widths and heights of the images whose thumbnail size is computed
Dimensions == {1, 2, 5, 150, 299, 300, 301, 333, 600, 800, 802, 1000, 1200}

VARIABLES
    innerWidth,            \* window.innerWidth
    classList,             \* Timeline.container.classList
    currentSection,        \* Timeline.currentSection
    navPrevDisabled,       \* #timelineNavPrev.disabled
    navNextDisabled,       \* #timelineNavNext.disabled
    menuToggleActive,      \* Navigation.menuToggle has class 'active'
    sidebarNavActive,      \* Navigation.sidebarNav has class 'active'
    sidebarOverlayActive,  \* Navigation.sidebarOverlay has class 'active'
    modalActive,           \* modal element has class 'active', per modal
    bodyOverflow,          \* document.body.style.overflow
    scrollY,               \* window.scrollY / window.pageYOffset
    lastScrolled,          \* Navigation.lastScrolled
    navbarScrolled,        \* Navigation.navbar has class 'scrolled'
    elements,              \* the [data-i18n] elements as authored (key, text)
    texts,                 \* textContent of each [data-i18n] element
    originalTexts,         \* LanguageSwitcher.originalTexts
    currentLang,           \* LanguageSwitcher.currentLang
    toggleChecked,         \* LanguageSwitcher.toggle.checked
    labelActive,           \* the label (.lang-en / .lang-de) carrying 'active'
    documentLang,          \* document.documentElement.lang
    storage,               \* localStorage entry 'preferredLanguage'
    modalContent,          \* textContent of modalCategory .. modalQuote, per field
    quoteDisplay,          \* style.display of modalQuote
    imageFiles,            \* make_thumbnails.ps1: $imageFiles, the sources in listing order
    thumbnails,            \* the file thumbnails/thumb_<name> of each source
    clock,                 \* file-system time of the running script
    scriptPc,              \* position of the script: ready, foreach, done
    img,                   \* index in $imageFiles of the loop variable $img
    count,                 \* $count
    run,                   \* 1 in the first run of the script, 2 in every later run
    log,                   \* history: the files visited in this run and what happened
    atStart,               \* history: the thumbnails when this run started
    calls,                 \* history: listeners run and browser calls made by the last event
    lastEvent,             \* history: the event dispatched last
    pre                    \* history: the program state before that event

vars == <<innerWidth, classList, currentSection, navPrevDisabled,
          navNextDisabled, menuToggleActive, sidebarNavActive,
          sidebarOverlayActive, modalActive, bodyOverflow, scrollY,
          lastScrolled, navbarScrolled, elements, texts,
          originalTexts, currentLang, toggleChecked, labelActive,
          documentLang, storage, modalContent, quoteDisplay,
          imageFiles, thumbnails, clock, scriptPc, img, count, run, log,
          atStart, calls, lastEvent, pre>>

\* The variables of the page script and those of the thumbnail script.
pageVars == <<innerWidth, classList, currentSection, navPrevDisabled,
              navNextDisabled, menuToggleActive, sidebarNavActive,
              sidebarOverlayActive, modalActive, bodyOverflow, scrollY,
              lastScrolled, navbarScrolled, elements, texts,
              originalTexts, currentLang, toggleChecked, labelActive,
              documentLang, storage, modalContent, quoteDisplay,
              calls, lastEvent, pre>>

toolVars == <<imageFiles, thumbnails, clock, scriptPc, img, count, run, log,
              atStart>>

\* The state of the thumbnail script as one record.
Tool ==
    [imageFiles |-> imageFiles, thumbnails |-> thumbnails, clock |-> clock,
     scriptPc |-> scriptPc, img |-> img, count |-> count, run |-> run,
     log |-> log, atStart |-> atStart]

IsTool(t) ==
    /\ imageFiles = t.imageFiles
    /\ thumbnails = t.thumbnails
    /\ clock = t.clock
    /\ scriptPc = t.scriptPc
    /\ img = t.img
    /\ count = t.count
    /\ run = t.run
    /\ log = t.log
    /\ atStart = t.atStart

\* No file thumbnails/thumb_<name>
NoThumbnail == [exists |-> FALSE, LastWriteTime |-> 0, width |-> 0, height |-> 0]

\* The script not yet run in a directory with the sources files and an
\* empty thumbnails directory.
NotStarted(files) ==
    [imageFiles |-> files,
     thumbnails |-> [i \in DOMAIN files |-> NoThumbnail],
     clock |-> 0, scriptPc |-> "ready", img |-> 0, count |-> 0, run |-> 0,
     log |-> <<>>,
     atStart |-> [i \in DOMAIN files |-> NoThumbnail]]

\* The program state as one record; handlers are functions on such records.
Cur ==
    [innerWidth |-> innerWidth, classList |-> classList,
     currentSection |-> currentSection,
     navPrevDisabled |-> navPrevDisabled, navNextDisabled |-> navNextDisabled,
     menuToggleActive |-> menuToggleActive, sidebarNavActive |-> sidebarNavActive,
     sidebarOverlayActive |-> sidebarOverlayActive,
     modalActive |-> modalActive, bodyOverflow |-> bodyOverflow,
     scrollY |-> scrollY,
     lastScrolled |-> lastScrolled, navbarScrolled |-> navbarScrolled,
     elements |-> elements, texts |-> texts, originalTexts |-> originalTexts,
     currentLang |-> currentLang, toggleChecked |-> toggleChecked,
     labelActive |-> labelActive, documentLang |-> documentLang,
     storage |-> storage, modalContent |-> modalContent,
     quoteDisplay |-> quoteDisplay]

\* A program state extended with the empty log of calls, for the handlers
\* whose listeners and browser calls are recorded.
WithCalls(s) ==
    [f \in DOMAIN s \cup {"calls"} |-> IF f = "calls" THEN <<>> ELSE s[f]]

\* A program state extended with the layout the listeners of one event read:
\* navbar.offsetHeight is h.
WithOffsetHeight(s, h) ==
    [f \in DOMAIN s \cup {"navbarHeight"} |-> IF f = "navbarHeight" THEN h ELSE s[f]]

\* Record a listener invocation or a browser call, with the scroll lock and
\* the sidebar as they are at that moment.
Call(s, fn, top, href) ==
    [s EXCEPT !.calls = Append(@, [fn |-> fn, top |-> top, href |-> href,
                                   overflow |-> s.bodyOverflow,
                                   sidebar |-> s.sidebarNavActive])]

\* ------------------------------------------------------------------------
\* JavaScript conversions
\* ------------------------------------------------------------------------

\* A JavaScript value passed to zoomToSection: a number (currentSection +- 1)
\* or a string (a data-section attribute).
JSNumber(n) == [t |-> "number", v |-> n]

JSString(x) == [t |-> "string", v |-> x]

\* Template-literal / String() conversion of such a value.
Str(v) == IF v.t = "string" THEN v.v ELSE ToString(v.v)

\* parseInt(v, 10) for the decimal literals the widget handles.
parseInt(v) == CHOOSE n \in 0..9 : ToString(n) = Str(v)

\* ------------------------------------------------------------------------
\* Modal
\* ------------------------------------------------------------------------

\* Modal.close that restores scrolling only when no other modal is active.
ModalClose_Counted(s, m) ==
    [s EXCEPT !.modalActive[m] = FALSE,
              !.bodyOverflow = IF \E o \in Modals \ {m} : s.modalActive[o]
                               THEN s.bodyOverflow ELSE ""]

ModalClose(s, m) ==
    [s EXCEPT !.modalActive[m] = FALSE, !.bodyOverflow = ""]

\* Modal.open that does not suspend page scroll.
ModalOpen_NoLock(s, m) == [s EXCEPT !.modalActive[m] = TRUE]

ModalOpen(s, m) ==
    [s EXCEPT !.modalActive[m] = TRUE, !.bodyOverflow = "hidden"]

\* Modals for which Modal.setup is given the contentElement option
\* (PartnerModal.init), and not given it (AchievementModal.init).
HasContentElement(m) == m = "partnerModal"

\* Modal click listener that closes on every click that reaches it.
modalClickListener_AnyTarget(s, m, target) ==
    ModalClose(Call(s, "modal.click", 0, m), m)

\* 'click' listener of the modal element: closes when the target is the
\* modal element itself.
modalClickListener(s, m, target) ==
    LET l == Call(s, "modal.click", 0, m)
    IN  IF target = "backdrop" THEN ModalClose(l, m) ELSE l

\* A click inside modal m with the given target (the backdrop, the close
\* button or the content region): the listeners Modal.setup registered run
\* from the target outwards until one stops the propagation.
onModalClick(s, m, target) ==
    IF target = "closeButton"
    THEN ModalClose(Call(s, "closeButton.click", 0, m), m)
    ELSE IF target = "content" /\ HasContentElement(m)
    THEN Call(s, "content.click", 0, m)
    ELSE modalClickListener(s, m, target)

\* ------------------------------------------------------------------------
\* Navigation
\* ------------------------------------------------------------------------

\* openSidebar that does not show the overlay.
openSidebar_NoOverlay(s) ==
    [s EXCEPT !.menuToggleActive = TRUE, !.sidebarNavActive = TRUE,
              !.bodyOverflow = "hidden"]

openSidebar(s) ==
    [s EXCEPT !.menuToggleActive = TRUE, !.sidebarNavActive = TRUE,
              !.sidebarOverlayActive = TRUE, !.bodyOverflow = "hidden"]

\* closeSidebar that leaves the overlay active.
closeSidebar_KeepOverlay(s) ==
    [s EXCEPT !.menuToggleActive = FALSE, !.sidebarNavActive = FALSE,
              !.bodyOverflow = ""]

\* closeSidebar that leaves page scroll suspended.
closeSidebar_KeepLock(s) ==
    [s EXCEPT !.menuToggleActive = FALSE, !.sidebarNavActive = FALSE,
              !.sidebarOverlayActive = FALSE]

closeSidebar(s) ==
    [s EXCEPT !.menuToggleActive = FALSE, !.sidebarNavActive = FALSE,
              !.sidebarOverlayActive = FALSE, !.bodyOverflow = ""]

isSidebarActive(s) == s.sidebarNavActive

\* scroll listener whose threshold test is window.scrollY >= 100.
onScroll_Inclusive(s) ==
    LET isScrolled == s.scrollY >= ScrollThreshold
    IN  IF isScrolled # s.lastScrolled
        THEN [Call(s, "classList.toggle", 0, "scrolled")
                  EXCEPT !.navbarScrolled = isScrolled,
                         !.lastScrolled = isScrolled]
        ELSE s

\* 'scroll' listener of Navigation.initNavbarScroll
onScroll(s) ==
    LET isScrolled == s.scrollY > ScrollThreshold
    IN  IF isScrolled # s.lastScrolled
        THEN [Call(s, "classList.toggle", 0, "scrolled")
                  EXCEPT !.navbarScrolled = isScrolled,
                         !.lastScrolled = isScrolled]
        ELSE s

\* target.getBoundingClientRect().top: the viewport-relative top of the target
getBoundingClientRectTop(s, href) == TargetTops[href] - s.scrollY

\* Smooth-scroll listener that takes the viewport-relative top as the target.
smoothScrollClick_ViewportTop(s, href) ==
    IF href \in DOMAIN TargetTops
    THEN LET height == s.navbarHeight
             targetPosition == getBoundingClientRectTop(s, href)
         IN  Call(Call(Call(s, "offsetHeight", height, href),
                       "scrollTo", targetPosition - height, href),
                  "pushState", 0, href)
    ELSE s

\* 'click' listener of Navigation.initSmoothScroll on an a[href^="#"]
smoothScrollClick(s, href) ==
    IF href \in DOMAIN TargetTops
    THEN LET height == s.navbarHeight
             targetPosition == getBoundingClientRectTop(s, href) + s.scrollY
         IN  Call(Call(Call(s, "offsetHeight", height, href),
                       "scrollTo", targetPosition - height, href),
                  "pushState", 0, href)
    ELSE s

\* Sidebar link listener that closes the sidebar for in-page links only.
sidebarLinkClick_InPageOnly(s, href) ==
    IF href \in InPageHrefs
    THEN closeSidebar(Call(s, "sidebarLink.click", 0, href))
    ELSE Call(s, "sidebarLink.click", 0, href)

\* 'click' listener of Navigation.initSidebar on a link inside the sidebar
sidebarLinkClick(s, href) == closeSidebar(Call(s, "sidebarLink.click", 0, href))

\* A click on a link: initSidebar registers its listener before
\* initSmoothScroll does, so on a sidebar link closeSidebar runs first.
onLinkClick(s, link) ==
    LET afterSidebar == IF link.inSidebar THEN sidebarLinkClick(s, link.href) ELSE s
    IN  IF link.href \in InPageHrefs
        THEN smoothScrollClick(afterSidebar, link.href)
        ELSE afterSidebar

\* ------------------------------------------------------------------------
\* Timeline
\* ------------------------------------------------------------------------

isMobile(s) == s.innerWidth <= MobileBreakpoint

isZoomed(s) == "zoomed" \in s.classList

updateNavButtons(s) ==
    [s EXCEPT !.navPrevDisabled = (s.currentSection <= 1),
              !.navNextDisabled = (s.currentSection >= totalSections)]

\* zoomToSection that does not remove the class of the section it leaves.
zoomToSection_KeepOld(s, sectionNum) ==
    updateNavButtons(
        [s EXCEPT !.currentSection = parseInt(sectionNum),
                  !.classList = s.classList
                                \cup {"zoomed", "zoom-section-" \o Str(sectionNum)}])

zoomToSection(s, sectionNum) ==
    updateNavButtons(
        [s EXCEPT !.currentSection = parseInt(sectionNum),
                  !.classList = (s.classList \ ZoomSectionClasses)
                                \cup {"zoomed", "zoom-section-" \o Str(sectionNum)}])

\* zoomOut without the mobile early return.
zoomOut_NoMobileGuard(s) ==
    updateNavButtons(
        [s EXCEPT !.classList = s.classList \ ({"zoomed"} \cup ZoomSectionClasses)])

\* zoomOut that removes only the 'zoomed' class.
zoomOut_KeepSectionClass(s) ==
    IF isMobile(s)
    THEN s
    ELSE updateNavButtons([s EXCEPT !.classList = s.classList \ {"zoomed"}])

zoomOut(s) ==
    IF isMobile(s)
    THEN s
    ELSE updateNavButtons(
             [s EXCEPT !.classList = s.classList \ ({"zoomed"} \cup ZoomSectionClasses)])

\* The mobile branch at the top of Timeline.setupInteractions.
setupInteractions(s) ==
    IF isMobile(s)
    THEN [zoomToSection(s, JSNumber(1)) EXCEPT !.classList = @ \cup {"mobile-mode"}]
    ELSE s

\* resize listener that zooms to section 1 on every mobile resize.
onResize_ForceSectionOne(s) ==
    IF isMobile(s)
    THEN [zoomToSection(s, JSNumber(1)) EXCEPT !.classList = @ \cup {"mobile-mode"}]
    ELSE IF "mobile-mode" \in s.classList
         THEN [zoomOut(s) EXCEPT !.classList = @ \ {"mobile-mode"}]
         ELSE s

\* resize listener that zooms out on every desktop resize.
onResize_AlwaysZoomOut(s) ==
    IF isMobile(s)
    THEN LET z == IF ~ isZoomed(s) THEN zoomToSection(s, JSNumber(1)) ELSE s
         IN  [z EXCEPT !.classList = @ \cup {"mobile-mode"}]
    ELSE [zoomOut(s) EXCEPT !.classList = @ \ {"mobile-mode"}]

\* resize listener that keeps the mobile-mode class on the way to desktop.
onResize_KeepFlag(s) ==
    IF isMobile(s)
    THEN LET z == IF ~ isZoomed(s) THEN zoomToSection(s, JSNumber(1)) ELSE s
         IN  [z EXCEPT !.classList = @ \cup {"mobile-mode"}]
    ELSE IF "mobile-mode" \in s.classList
         THEN zoomOut(s)
         ELSE s

\* window 'resize' listener
onResize(s) ==
    IF isMobile(s)
    THEN LET z == IF ~ isZoomed(s) THEN zoomToSection(s, JSNumber(1)) ELSE s
         IN  [z EXCEPT !.classList = @ \cup {"mobile-mode"}]
    ELSE IF "mobile-mode" \in s.classList
         THEN [zoomOut(s) EXCEPT !.classList = @ \ {"mobile-mode"}]
         ELSE s

\* Hot-zone listener without the mobile early return.
onSectionClick_NoMobileGuard(s, section) == zoomToSection(s, JSString(section))

\* 'click' listener of a .timeline-section-area; on mobile it returns before
\* stopPropagation and the click bubbles to the svg listener, which returns
\* on mobile as well.
onSectionClick(s, section) ==
    IF isMobile(s) THEN s ELSE zoomToSection(s, JSString(section))

\* 'click' listener of the svg for a target outside every hot-zone
onSvgClick(s) ==
    IF isMobile(s) THEN s
    ELSE IF isZoomed(s) THEN zoomOut(s) ELSE s

\* prev listener whose guard admits section 1.
onNavPrevClick_OffByOne(s) ==
    IF s.currentSection >= 1 THEN zoomToSection(s, JSNumber(s.currentSection - 1)) ELSE s

onNavPrevClick(s) ==
    IF s.currentSection > 1 THEN zoomToSection(s, JSNumber(s.currentSection - 1)) ELSE s

\* next listener that wraps from the last section to the first.
onNavNextClick_Wrap(s) ==
    IF s.currentSection < totalSections
    THEN zoomToSection(s, JSNumber(s.currentSection + 1))
    ELSE zoomToSection(s, JSNumber(1))

onNavNextClick(s) ==
    IF s.currentSection < totalSections
    THEN zoomToSection(s, JSNumber(s.currentSection + 1)) ELSE s

\* Timeline keydown listener without the desktop-idle early return.
timelineKeydown_NoIdleGuard(s, key) ==
    IF key = "ArrowLeft" /\ s.currentSection > 1
    THEN zoomToSection(s, JSNumber(s.currentSection - 1))
    ELSE IF key = "ArrowRight" /\ s.currentSection < totalSections
         THEN zoomToSection(s, JSNumber(s.currentSection + 1))
    ELSE s

\* document 'keydown' listener registered by Timeline.setupInteractions
timelineKeydown(s, key) ==
    IF ~ isMobile(s) /\ ~ isZoomed(s) THEN s
    ELSE IF key = "ArrowLeft" /\ s.currentSection > 1
         THEN zoomToSection(s, JSNumber(s.currentSection - 1))
    ELSE IF key = "ArrowRight" /\ s.currentSection < totalSections
         THEN zoomToSection(s, JSNumber(s.currentSection + 1))
    ELSE s

\* ------------------------------------------------------------------------
\* KeyboardHandler
\* ------------------------------------------------------------------------

\* Escape router that looks at the sidebar before the modals.
keyboardHandlerKeydown_SidebarFirst(s, key) ==
    IF key # "Escape" THEN s
    ELSE IF isSidebarActive(s) THEN closeSidebar(s)
    ELSE IF s.modalActive["achievementModal"] THEN ModalClose(s, "achievementModal")
    ELSE IF s.modalActive["partnerModal"] THEN ModalClose(s, "partnerModal")
    ELSE IF isZoomed(s) THEN zoomOut(s)
    ELSE s

\* Escape router that closes every open context instead of the first one.
keyboardHandlerKeydown_CloseAll(s, key) ==
    IF key # "Escape" THEN s
    ELSE LET a == IF s.modalActive["achievementModal"]
                  THEN ModalClose(s, "achievementModal") ELSE s
             b == IF a.modalActive["partnerModal"]
                  THEN ModalClose(a, "partnerModal") ELSE a
             c == IF isSidebarActive(b) THEN closeSidebar(b) ELSE b
         IN  IF isZoomed(c) THEN zoomOut(c) ELSE c

\* Escape router without the timeline branch.
keyboardHandlerKeydown_NoTimeline(s, key) ==
    IF key # "Escape" THEN s
    ELSE IF s.modalActive["achievementModal"] THEN ModalClose(s, "achievementModal")
    ELSE IF s.modalActive["partnerModal"] THEN ModalClose(s, "partnerModal")
    ELSE IF isSidebarActive(s) THEN closeSidebar(s)
    ELSE s

\* document 'keydown' listener registered by KeyboardHandler.init
keyboardHandlerKeydown(s, key) ==
    IF key # "Escape" THEN s
    ELSE IF s.modalActive["achievementModal"] THEN ModalClose(s, "achievementModal")
    ELSE IF s.modalActive["partnerModal"] THEN ModalClose(s, "partnerModal")
    ELSE IF isSidebarActive(s) THEN closeSidebar(s)
    ELSE IF isZoomed(s) THEN zoomOut(s)
    ELSE s

\* Timeline.init runs before KeyboardHandler.init, so its listener runs first.
onKeydown(s, key) == keyboardHandlerKeydown(timelineKeydown(s, key), key)

\* menuToggle 'click' listener
onMenuToggleClick(s) ==
    IF s.sidebarNavActive THEN closeSidebar(s) ELSE openSidebar(s)

\* ------------------------------------------------------------------------
\* LanguageSwitcher
\* ------------------------------------------------------------------------

\* JavaScript truthiness of table[key]: the key has an entry and the entry is
\* not the empty string.
Truthy(table, key) == key \in DOMAIN table /\ table[key] # ""

\* The forEach assigns in document order, so the last element carrying a key
\* decides the text stored under it.
storeOriginalTexts(s) ==
    [s EXCEPT !.originalTexts =
        [k \in {s.elements[i].key : i \in DOMAIN s.elements} |->
            LET last == CHOOSE i \in DOMAIN s.elements :
                            /\ s.elements[i].key = k
                            /\ \A j \in DOMAIN s.elements :
                                   s.elements[j].key = k => j <= i
            IN  s.texts[last]]]

\* switchLanguage that blanks an element whose key has no translation.
switchLanguage_BlankMissing(s, lang) ==
    [s EXCEPT !.currentLang = lang,
              !.labelActive = lang,
              !.texts = [i \in DOMAIN s.texts |->
                            LET key == s.elements[i].key
                            IN  IF lang = "de"
                                THEN IF Truthy(TranslationsDe, key)
                                     THEN TranslationsDe[key] ELSE ""
                                ELSE IF lang = "en" /\ Truthy(s.originalTexts, key)
                                THEN s.originalTexts[key]
                                ELSE s.texts[i]],
              !.documentLang = lang]

switchLanguage(s, lang) ==
    [s EXCEPT !.currentLang = lang,
              !.labelActive = lang,
              !.texts = [i \in DOMAIN s.texts |->
                            LET key == s.elements[i].key
                            IN  IF lang = "de" /\ Truthy(TranslationsDe, key)
                                THEN TranslationsDe[key]
                                ELSE IF lang = "en" /\ Truthy(s.originalTexts, key)
                                THEN s.originalTexts[key]
                                ELSE s.texts[i]],
              !.documentLang = lang]

\* LanguageSwitcher.init that applies whatever preference is stored.
languageSwitcherInit_AnyStored(s) ==
    LET stored == storeOriginalTexts(s)
    IN  IF s.storage # {}
        THEN switchLanguage([stored EXCEPT !.toggleChecked = TRUE],
                            CHOOSE l \in s.storage : TRUE)
        ELSE stored

\* LanguageSwitcher.init up to the registration of the change listener
languageSwitcherInit(s) ==
    LET stored == storeOriginalTexts(s)
    IN  IF s.storage = {"de"}
        THEN switchLanguage([stored EXCEPT !.toggleChecked = TRUE], "de")
        ELSE stored

\* Toggle listener that stores the locale it is leaving.
onToggleChange_StoreOld(s) ==
    LET newLang == IF s.toggleChecked THEN "de" ELSE "en"
    IN  [switchLanguage(s, newLang) EXCEPT !.storage = {s.currentLang}]

\* 'change' listener of the toggle, after the checkbox has flipped
onToggleChange(s) ==
    LET newLang == IF s.toggleChecked THEN "de" ELSE "en"
    IN  [switchLanguage(s, newLang) EXCEPT !.storage = {newLang}]

\* ------------------------------------------------------------------------
\* AchievementModal
\* ------------------------------------------------------------------------

\* getTranslatedContent that reads the card's attributes in every locale.
getTranslatedContent_CardOnly(s, card) == [f \in Fields |-> card[f]]

getTranslatedContent(s, card) ==
    LET achievementId == card.achievement
        lang == s.currentLang
        translations == TranslationsDe
        key(f) == "achievements." \o achievementId \o "." \o f
    IN  IF lang = "de" /\ achievementId # ""
        THEN [f \in Fields |->
                 IF Truthy(translations, key(f)) THEN translations[key(f)]
                 ELSE card[f]]
        ELSE [f \in Fields |-> card[f]]

\* 'click' listener of the carousel; target is the name of the card the
\* click is in, or a place of the carousel outside every card.
onCarouselClick(s, target) ==
    IF target \notin DOMAIN AchievementCards THEN s
    ELSE LET content == getTranslatedContent(s, AchievementCards[target])
             written == [f \in Fields |->
                            IF f # "quote" THEN content[f]
                            ELSE IF content.quote # ""
                                 THEN "\"" \o content.quote \o "\""
                                 ELSE s.modalContent.quote]
         IN  ModalOpen([s EXCEPT !.modalContent = written,
                                 !.quoteDisplay = IF content.quote # ""
                                                  THEN "block" ELSE "none"],
                       "achievementModal")

\* ------------------------------------------------------------------------
\* Initial state and events
\* ------------------------------------------------------------------------

\* init(): the module initialisers that change the modelled state
init(s) == languageSwitcherInit(setupInteractions(s))

\* Module state after the property initialisers, before init() runs.
Constructed(w, prevDis, nextDis) ==
    [innerWidth |-> w, classList |-> {}, currentSection |-> 1,
     navPrevDisabled |-> prevDis, navNextDisabled |-> nextDis,
     menuToggleActive |-> FALSE, sidebarNavActive |-> FALSE,
     sidebarOverlayActive |-> FALSE,
     modalActive |-> [m \in Modals |-> FALSE], bodyOverflow |-> "",
     scrollY |-> 0,
     lastScrolled |-> FALSE, navbarScrolled |-> FALSE,
     elements |-> DefaultPage,
     texts |-> [i \in DOMAIN DefaultPage |-> DefaultPage[i].text],
     originalTexts |-> <<>>, currentLang |-> "en", toggleChecked |-> FALSE,
     labelActive |-> "en", documentLang |-> "en", storage |-> {},
     modalContent |-> [f \in Fields |-> ""], quoteDisplay |-> ""]

NoEvent == [type |-> "init", arg |-> ""]

IsState(s) ==
    /\ innerWidth = s.innerWidth
    /\ classList = s.classList
    /\ currentSection = s.currentSection
    /\ navPrevDisabled = s.navPrevDisabled
    /\ navNextDisabled = s.navNextDisabled
    /\ menuToggleActive = s.menuToggleActive
    /\ sidebarNavActive = s.sidebarNavActive
    /\ sidebarOverlayActive = s.sidebarOverlayActive
    /\ modalActive = s.modalActive
    /\ bodyOverflow = s.bodyOverflow
    /\ scrollY = s.scrollY
    /\ lastScrolled = s.lastScrolled
    /\ navbarScrolled = s.navbarScrolled
    /\ elements = s.elements
    /\ texts = s.texts
    /\ originalTexts = s.originalTexts
    /\ currentLang = s.currentLang
    /\ toggleChecked = s.toggleChecked
    /\ labelActive = s.labelActive
    /\ documentLang = s.documentLang
    /\ storage = s.storage
    /\ modalContent = s.modalContent
    /\ quoteDisplay = s.quoteDisplay

Init ==
    \E w \in Widths, prevDis \in BOOLEAN, nextDis \in BOOLEAN :
        /\ IsState(init(Constructed(w, prevDis, nextDis)))
        /\ IsTool(NotStarted(<<>>))
        /\ calls = <<>>
        /\ lastEvent = NoEvent
        /\ pre = init(Constructed(w, prevDis, nextDis))

\* Dispatch of one event: the handlers take the state to s.
Commit(s, type, arg) ==
    /\ innerWidth' = s.innerWidth
    /\ classList' = s.classList
    /\ currentSection' = s.currentSection
    /\ navPrevDisabled' = s.navPrevDisabled
    /\ navNextDisabled' = s.navNextDisabled
    /\ menuToggleActive' = s.menuToggleActive
    /\ sidebarNavActive' = s.sidebarNavActive
    /\ sidebarOverlayActive' = s.sidebarOverlayActive
    /\ modalActive' = s.modalActive
    /\ bodyOverflow' = s.bodyOverflow
    /\ scrollY' = s.scrollY
    /\ lastScrolled' = s.lastScrolled
    /\ navbarScrolled' = s.navbarScrolled
    /\ elements' = s.elements
    /\ texts' = s.texts
    /\ originalTexts' = s.originalTexts
    /\ currentLang' = s.currentLang
    /\ toggleChecked' = s.toggleChecked
    /\ labelActive' = s.labelActive
    /\ documentLang' = s.documentLang
    /\ storage' = s.storage
    /\ modalContent' = s.modalContent
    /\ quoteDisplay' = s.quoteDisplay
    /\ calls' = IF "calls" \in DOMAIN s THEN s.calls ELSE <<>>
    /\ lastEvent' = [type |-> type, arg |-> arg]
    /\ pre' = Cur
    /\ UNCHANGED toolVars

\* The viewport takes width w.
Resize ==
    \E w \in Widths :
        Commit(onResize([Cur EXCEPT !.innerWidth = w]), "resize", "")

SectionClick ==
    \E section \in SectionAreas :
        Commit(onSectionClick(Cur, section), "sectionClick", section)

ZoomOutClick == Commit(zoomOut(Cur), "zoomOutClick", "")

NavPrevClick == Commit(onNavPrevClick(Cur), "navPrevClick", "")

NavNextClick == Commit(onNavNextClick(Cur), "navNextClick", "")

SvgClick == Commit(onSvgClick(Cur), "svgClick", "")

Keydown ==
    \E key \in Keys : Commit(onKeydown(Cur, key), "keydown", key)

MenuToggleClick == Commit(onMenuToggleClick(Cur), "menuToggleClick", "")

OverlayClick == Commit(closeSidebar(Cur), "overlayClick", "")

\* Click on an achievement card / partner card: the delegated listener ends
\* in Modal.open of the module's modal.
CardClick ==
    \E m \in Modals :
        Commit(IF m = "achievementModal" THEN onCarouselClick(Cur, DefaultCard)
               ELSE ModalOpen(Cur, m),
               "cardClick", m)

\* Click on a modal's close button
ModalCloseClick ==
    \E m \in Modals :
        Commit(onModalClick(WithCalls(Cur), m, "closeButton"), "modalCloseClick", m)

\* Click whose target is the modal element itself (the backdrop)
BackdropClick ==
    \E m \in Modals :
        Commit(onModalClick(WithCalls(Cur), m, "backdrop"), "backdropClick", m)

\* Click inside the content region of a modal
ContentClick ==
    \E m \in Modals :
        Commit(onModalClick(WithCalls(Cur), m, "content"), "contentClick", m)

\* Click on a link of the page, with the navbar h pixels high
LinkClick ==
    \E link \in Links, h \in NavbarHeights :
        Commit(onLinkClick(WithOffsetHeight(WithCalls(Cur), h), link),
               IF link.inSidebar THEN "sidebarLinkClick" ELSE "linkClick",
               link.href)

\* The page is scrolled to position y.
Scroll ==
    \E y \in ScrollPositions :
        Commit(onScroll(WithCalls([Cur EXCEPT !.scrollY = y])), "scroll", "")

\* The user flips the language toggle.
ToggleChange ==
    Commit(onToggleChange([Cur EXCEPT !.toggleChecked = ~ toggleChecked]),
           "toggleChange", "")

\* The page as the browser builds it from the document: authored texts, the
\* stored preference kept.
Document(page, stored) ==
    [Constructed(MobileBreakpoint + 1, FALSE, FALSE)
        EXCEPT !.elements = page,
               !.texts = [i \in DOMAIN page |-> page[i].text],
               !.storage = stored]

\* The page is loaded again: the script runs on the document as authored,
\* with the stored preference of the session before.
Reload == Commit(init(Document(elements, storage)), "reload", "")

Next ==
    \/ Resize
    \/ SectionClick
    \/ ZoomOutClick
    \/ NavPrevClick
    \/ NavNextClick
    \/ SvgClick
    \/ Keydown
    \/ MenuToggleClick
    \/ OverlayClick
    \/ CardClick
    \/ ModalCloseClick
    \/ BackdropClick
    \/ ContentClick
    \/ LinkClick
    \/ Scroll

Spec == Init /\ [][Next]_vars

\* The language switcher on every page of Pages with every stored preference.
InitLang ==
    \E page \in Pages, stored \in StoredPreferences :
        /\ IsState(init(Document(page, stored)))
        /\ IsTool(NotStarted(<<>>))
        /\ calls = <<>>
        /\ lastEvent = NoEvent
        /\ pre = init(Document(page, stored))

NextLang ==
    \/ ToggleChange
    \/ Reload

SpecLang == InitLang /\ [][NextLang]_vars

\* Click inside the achievements carousel: on one of the cards or between them
CarouselClick ==
    \E target \in DOMAIN AchievementCards \cup {"gap"} :
        Commit(onCarouselClick(Cur, target), "carouselClick", target)

\* Click on the close button of the achievement modal
AchievementModalCloseClick ==
    Commit(onModalClick(WithCalls(Cur), "achievementModal", "closeButton"),
           "modalCloseClick", "achievementModal")

\* The achievement modal with the language switcher, for every stored
\* preference.
InitModal ==
    \E stored \in StoredPreferences :
        /\ IsState(init(Document(DefaultPage, stored)))
        /\ IsTool(NotStarted(<<>>))
        /\ calls = <<>>
        /\ lastEvent = NoEvent
        /\ pre = init(Document(DefaultPage, stored))

NextModal ==
    \/ CarouselClick
    \/ AchievementModalCloseClick
    \/ ToggleChange
    \/ Reload

SpecModal == InitModal /\ [][NextModal]_vars

\* ------------------------------------------------------------------------
\* make_thumbnails.ps1
\* ------------------------------------------------------------------------

\* [int] cast of the quotient num / den (num >= 0, den > 0): PowerShell
\* rounds to the nearest integer, a half to the even neighbour.
IntCast(num, den) ==
    LET q == num \div den
        r == num % den
    IN  IF 2 * r < den THEN q
        ELSE IF 2 * r > den THEN q + 1
        ELSE IF q % 2 = 0 THEN q ELSE q + 1

\* Thumbnail size computed with one ratio per axis.
ThumbnailSize_PerAxis(width, height) ==
    LET ratioX == [num |-> MaxSize, den |-> width]
        ratioY == [num |-> MaxSize, den |-> height]
    IN  [width |-> IntCast(width * ratioX.num, ratioX.den),
         height |-> IntCast(height * ratioY.num, ratioY.den)]

\* $newWidth and $newHeight for an image of width x height; the ratios are
\* kept as fractions.
ThumbnailSize(width, height) ==
    LET ratioX == [num |-> MaxSize, den |-> width]
        ratioY == [num |-> MaxSize, den |-> height]
        ratio == IF ratioX.num * ratioY.den <= ratioY.num * ratioX.den
                 THEN ratioX ELSE ratioY
    IN  [width |-> IntCast(width * ratio.num, ratio.den),
         height |-> IntCast(height * ratio.num, ratio.den)]

\* The skip test of the loop: the thumbnail exists and is newer than the source.
UpToDate(file, thumb) ==
    thumb.exists /\ thumb.LastWriteTime > file.LastWriteTime

\* The loop goes on to the next file, having logged what happened to this one.
Visited(t, outcome) ==
    [t EXCEPT !.img = @ + 1,
              !.log = Append(@, [file |-> t.img, outcome |-> outcome])]

\* Loop body that counts a file before its thumbnail is saved.
foreachBody_CountFirst(t, saved) ==
    LET file == t.imageFiles[t.img]
        size == ThumbnailSize(file.width, file.height)
    IN  IF UpToDate(file, t.thumbnails[t.img]) THEN Visited(t, "skipped")
        ELSE IF ~ file.decodes \/ size.width < 1 \/ size.height < 1 \/ ~ saved
        THEN Visited([t EXCEPT !.count = @ + 1], "error")
        ELSE Visited([t EXCEPT !.thumbnails[t.img] =
                                   [exists |-> TRUE, LastWriteTime |-> t.clock,
                                    width |-> size.width, height |-> size.height],
                               !.count = @ + 1],
                     "created")

\* Loop body whose skip test is 'not older than the source'.
foreachBody_SkipNotOlder(t, saved) ==
    LET file == t.imageFiles[t.img]
        thumb == t.thumbnails[t.img]
        size == ThumbnailSize(file.width, file.height)
    IN  IF thumb.exists /\ thumb.LastWriteTime >= file.LastWriteTime
        THEN Visited(t, "skipped")
        ELSE IF ~ file.decodes \/ size.width < 1 \/ size.height < 1 \/ ~ saved
        THEN Visited(t, "error")
        ELSE Visited([t EXCEPT !.thumbnails[t.img] =
                                   [exists |-> TRUE, LastWriteTime |-> t.clock,
                                    width |-> size.width, height |-> size.height],
                               !.count = @ + 1],
                     "created")

\* One iteration of the foreach loop on $imageFiles[img].  FromStream throws
\* on a file that does not decode, the Bitmap constructor throws on a width
\* or height below 1, and Save throws when saved is false; the catch block
\* logs the error and the loop goes on.
foreachBody(t, saved) ==
    LET file == t.imageFiles[t.img]
        size == ThumbnailSize(file.width, file.height)
    IN  IF UpToDate(file, t.thumbnails[t.img]) THEN Visited(t, "skipped")
        ELSE IF ~ file.decodes \/ size.width < 1 \/ size.height < 1 \/ ~ saved
        THEN Visited(t, "error")
        ELSE Visited([t EXCEPT !.thumbnails[t.img] =
                                   [exists |-> TRUE, LastWriteTime |-> t.clock,
                                    width |-> size.width, height |-> size.height],
                               !.count = @ + 1],
                     "created")

\* The script takes the state t; the page is not involved.
CommitTool(t) ==
    /\ imageFiles' = t.imageFiles
    /\ thumbnails' = t.thumbnails
    /\ clock' = t.clock
    /\ scriptPc' = t.scriptPc
    /\ img' = t.img
    /\ count' = t.count
    /\ run' = t.run
    /\ log' = t.log
    /\ atStart' = t.atStart
    /\ UNCHANGED pageVars

\* The script is started at time now, for the first time or again; the
\* sources are as they were.
RunScript ==
    /\ scriptPc \in {"ready", "done"}
    /\ \E now \in Times :
           /\ now >= clock
           /\ CommitTool([Tool EXCEPT !.scriptPc = "foreach", !.img = 1,
                                      !.count = 0, !.log = <<>>,
                                      !.run = IF scriptPc = "ready" THEN 1 ELSE 2,
                                      !.clock = now,
                                      !.atStart = thumbnails])

\* The loop body runs on the next file; Save succeeds or fails.
Iterate ==
    /\ scriptPc = "foreach"
    /\ img <= Len(imageFiles)
    /\ \E saved \in BOOLEAN : CommitTool(foreachBody(Tool, saved))

\* The loop is over: the script prints the count.
Summary ==
    /\ scriptPc = "foreach"
    /\ img > Len(imageFiles)
    /\ CommitTool([Tool EXCEPT !.scriptPc = "done"])

\* An image file: its size, whether it decodes, its LastWriteTime.
ImageFile(width, height, decodes, time) ==
    [width |-> width, height |-> height, decodes |-> decodes,
     LastWriteTime |-> time]

\* The landscape image of the scenario, intact or damaged, of any age.
BatchFiles ==
    {ImageFile(1200, 800, decodes, time) : decodes \in BOOLEAN, time \in SourceTimes}

\* The directories the batch is run in: up to MaxFiles files.
Directories == UNION {[1..n -> BatchFiles] : n \in 0..MaxFiles}

PageAtRest ==
    /\ IsState(init(Document(DefaultPage, {})))
    /\ calls = <<>>
    /\ lastEvent = NoEvent
    /\ pre = init(Document(DefaultPage, {}))

InitThumb ==
    /\ PageAtRest
    /\ \E files \in Directories : IsTool(NotStarted(files))

NextThumb ==
    \/ RunScript
    \/ Iterate
    \/ Summary

\* Every iteration and the summary end: the script makes progress.
SpecThumb ==
    InitThumb /\ [][NextThumb]_vars /\ WF_vars(Iterate) /\ WF_vars(Summary)

\* The script on a directory with one intact image of any size.
InitResize ==
    /\ PageAtRest
    /\ \E width \in Dimensions, height \in Dimensions, time \in SourceTimes :
           IsTool(NotStarted(<<ImageFile(width, height, TRUE, time)>>))

SpecResize == InitResize /\ [][NextThumb]_vars

TypeOK ==
    /\ innerWidth \in Widths
    /\ classList \subseteq ({"zoomed", "mobile-mode"} \cup ZoomSectionClasses)
    /\ currentSection \in Int
    /\ menuToggleActive \in BOOLEAN
    /\ modalActive \in [Modals -> BOOLEAN]
    /\ bodyOverflow \in {"", "hidden"}

\* ------------------------------------------------------------------------
\* Vocabulary of the properties
\* ------------------------------------------------------------------------

\* The timeline part of a program state.
TimelineState(s) ==
    <<s.classList, s.currentSection, s.navPrevDisabled, s.navNextDisabled>>

\* The zoom part of the timeline state.
ZoomState(s) ==
    <<s.classList \cap ({"zoomed"} \cup ZoomSectionClasses), s.currentSection>>

\* The sidebar part of a program state.
SidebarState(s) ==
    <<s.menuToggleActive, s.sidebarNavActive, s.sidebarOverlayActive>>

\* Zoomed(n): the zoomed flag, exactly the class of section n, currentSection = n.
ZoomedOn(s, n) ==
    /\ "zoomed" \in s.classList
    /\ s.classList \cap ZoomSectionClasses = {"zoom-section-" \o ToString(n)}
    /\ s.currentSection = n

\* Idle: neither the zoomed flag nor any zoom-section class.
Idle(s) == s.classList \cap ({"zoomed"} \cup ZoomSectionClasses) = {}

Sections == 1..totalSections

EscapePressed == lastEvent = [type |-> "keydown", arg |-> "Escape"]

ArrowLeftPressed == lastEvent = [type |-> "keydown", arg |-> "ArrowLeft"]

ArrowRightPressed == lastEvent = [type |-> "keydown", arg |-> "ArrowRight"]

\* The closeable contexts in the router's priority order.
Contexts == <<"achievementModal", "partnerModal", "sidebar", "timeline">>

IsOpen(s, c) ==
    IF c = "sidebar" THEN s.sidebarNavActive
    ELSE IF c = "timeline" THEN "zoomed" \in s.classList
    ELSE s.modalActive[c]

\* Index of the first open context, 0 when none is open.
FirstOpen(s) ==
    IF \E i \in 1..4 : IsOpen(s, Contexts[i])
    THEN CHOOSE i \in 1..4 :
             /\ IsOpen(s, Contexts[i])
             /\ \A j \in 1..(i - 1) : ~ IsOpen(s, Contexts[j])
    ELSE 0

\* ------------------------------------------------------------------------
\* C1
\* ------------------------------------------------------------------------

\* C1: in every reachable state with a mobile viewport (width <= 768) the
\* timeline is zoomed on some section of 1..3, zoomOut() applied there changes
\* nothing, and a zoom-out click or an Escape press that just happened on
\* mobile left the timeline state as it was.
C1_MobileAlwaysZoomed ==
    isMobile(Cur) =>
        /\ \E n \in Sections : ZoomedOn(Cur, n)
        /\ zoomOut(Cur) = Cur
        /\ (lastEvent.type = "zoomOutClick" \/ EscapePressed)
               => TimelineState(Cur) = TimelineState(pre)

\* A zoom-out click was dispatched on mobile while section 2 was zoomed.
C1_Witness ==
    /\ isMobile(Cur)
    /\ lastEvent.type = "zoomOutClick"
    /\ ZoomedOn(pre, 2)
    /\ ZoomedOn(Cur, 2)

\* ------------------------------------------------------------------------
\* C2
\* ------------------------------------------------------------------------

\* C2 as stated: after every Escape press the first context found open
\* (achievement modal, partner modal, sidebar, timeline zoom) is no longer
\* open, in every viewport mode.
C2_Original ==
    (EscapePressed /\ FirstOpen(pre) # 0)
        => ~ IsOpen(Cur, Contexts[FirstOpen(pre)])

\* C2 amended: after every Escape press the first context found open is no
\* longer open and every other context is as open as before, except that on
\* a mobile viewport with the timeline zoom as the first open context the
\* press changes nothing.
C2_EscapeClosesFirstOpen ==
    (EscapePressed /\ FirstOpen(pre) # 0) =>
        IF FirstOpen(pre) = 4 /\ isMobile(pre)
        THEN Cur = pre
        ELSE /\ ~ IsOpen(Cur, Contexts[FirstOpen(pre)])
             /\ \A i \in 1..4 :
                    i # FirstOpen(pre)
                        => IsOpen(Cur, Contexts[i]) = IsOpen(pre, Contexts[i])

\* Escape was pressed with the partner modal, the sidebar and the timeline open.
C2_Witness ==
    /\ EscapePressed
    /\ FirstOpen(pre) = 2
    /\ pre.sidebarNavActive
    /\ "zoomed" \in pre.classList
    /\ ~ modalActive["partnerModal"]

\* ------------------------------------------------------------------------
\* C3
\* ------------------------------------------------------------------------

\* C3: one Escape press leaves every lower-priority context untouched: with
\* a modal and the sidebar open the three sidebar flags stay set; with both
\* modals open only the achievement modal closes; with the sidebar open and
\* the timeline zoomed the timeline state stays as it was.
C3_EscapeFrame ==
    EscapePressed =>
        /\ ((\E m \in Modals : pre.modalActive[m]) /\ pre.sidebarNavActive)
               => /\ SidebarState(Cur) = SidebarState(pre)
                  /\ sidebarNavActive
        /\ (\A m \in Modals : pre.modalActive[m])
               => /\ ~ modalActive["achievementModal"]
                  /\ modalActive["partnerModal"]
        /\ (pre.sidebarNavActive /\ "zoomed" \in pre.classList)
               => TimelineState(Cur) = TimelineState(pre)

\* Escape was pressed on desktop with both modals and the sidebar open and
\* the timeline zoomed on section 3.
C3_Witness ==
    /\ EscapePressed
    /\ ~ isMobile(pre)
    /\ \A m \in Modals : pre.modalActive[m]
    /\ SidebarState(pre) = <<TRUE, TRUE, TRUE>>
    /\ ZoomedOn(pre, 3)
    /\ ZoomedOn(Cur, 3)

\* ------------------------------------------------------------------------
\* C4
\* ------------------------------------------------------------------------

\* C4: an Escape press with the sidebar open and no modal open closes the
\* sidebar: toggle, sidebar and overlay are inactive afterwards, no modal is
\* active and the timeline state is unchanged.
C4_EscapeClosesSidebar ==
    (EscapePressed /\ pre.sidebarNavActive
         /\ \A m \in Modals : ~ pre.modalActive[m])
        => /\ SidebarState(Cur) = <<FALSE, FALSE, FALSE>>
           /\ \A m \in Modals : ~ modalActive[m]
           /\ TimelineState(Cur) = TimelineState(pre)

\* Escape was pressed with only the sidebar open over a zoomed timeline.
C4_Witness ==
    /\ EscapePressed
    /\ SidebarState(pre) = <<TRUE, TRUE, TRUE>>
    /\ \A m \in Modals : ~ pre.modalActive[m]
    /\ ZoomedOn(pre, 2)
    /\ ~ sidebarNavActive

\* ------------------------------------------------------------------------
\* C5
\* ------------------------------------------------------------------------

\* C5: on desktop the timeline starts Idle; a hot-zone click for section n
\* on desktop gives Zoomed(n); a zoom-out click on desktop gives Idle.
C5_DesktopZoom ==
    /\ (lastEvent = NoEvent /\ ~ isMobile(Cur)) => Idle(Cur)
    /\ (lastEvent.type = "sectionClick" /\ ~ isMobile(pre))
           => \E n \in Sections :
                  /\ ToString(n) = lastEvent.arg
                  /\ ZoomedOn(Cur, n)
    /\ (lastEvent.type = "zoomOutClick" /\ ~ isMobile(pre)) => Idle(Cur)

\* The zoom-out control was clicked on desktop while section 3 was zoomed.
C5_Witness ==
    /\ lastEvent.type = "zoomOutClick"
    /\ ~ isMobile(pre)
    /\ ZoomedOn(pre, 3)
    /\ Idle(Cur)

\* ------------------------------------------------------------------------
\* C6
\* ------------------------------------------------------------------------

\* C6: a prev click or ArrowLeft with currentSection = 1, and a next click
\* or ArrowRight with currentSection = 3, leave the timeline state unchanged;
\* a next click from Zoomed(2) gives Zoomed(3).
C6_BoundaryNoOp ==
    /\ ((lastEvent.type = "navPrevClick" \/ ArrowLeftPressed)
            /\ pre.currentSection = 1)
           => TimelineState(Cur) = TimelineState(pre)
    /\ ((lastEvent.type = "navNextClick" \/ ArrowRightPressed)
            /\ pre.currentSection = totalSections)
           => TimelineState(Cur) = TimelineState(pre)
    /\ (lastEvent.type = "navNextClick" /\ ZoomedOn(pre, 2))
           => ZoomedOn(Cur, 3)

\* The next control was clicked while section 3 was zoomed on desktop.
C6_Witness ==
    /\ lastEvent.type = "navNextClick"
    /\ ~ isMobile(pre)
    /\ ZoomedOn(pre, totalSections)
    /\ ZoomedOn(Cur, totalSections)

\* ------------------------------------------------------------------------
\* C7
\* ------------------------------------------------------------------------

\* C7: Timeline.currentSection is 1, 2 or 3 in every reachable state.
C7_CurrentSectionValid == currentSection \in Sections

\* ArrowLeft was pressed while zoomed on section 1 and the section is still 1.
C7_Witness ==
    /\ ArrowLeftPressed
    /\ "zoomed" \in pre.classList
    /\ pre.currentSection = 1
    /\ currentSection = 1

\* ------------------------------------------------------------------------
\* C8
\* ------------------------------------------------------------------------

DesktopToMobile ==
    lastEvent.type = "resize" /\ ~ isMobile(pre) /\ isMobile(Cur)

MobileToDesktop ==
    lastEvent.type = "resize" /\ isMobile(pre) /\ ~ isMobile(Cur)

\* C8 as stated: after a resize from desktop width to mobile width the
\* timeline is in Zoomed(1) with mobile-mode set, whatever it was before.
C8_Original ==
    DesktopToMobile => (ZoomedOn(Cur, 1) /\ "mobile-mode" \in classList)

\* C8 amended: after a resize from desktop width to mobile width mobile-mode
\* is set and the timeline is zoomed: on section 1 if it was Idle on desktop,
\* and still on section n if it was Zoomed(n) on desktop.
C8_ResizeToMobile ==
    DesktopToMobile =>
        /\ "mobile-mode" \in classList
        /\ Idle(pre) => ZoomedOn(Cur, 1)
        /\ \A n \in Sections : ZoomedOn(pre, n) => ZoomedOn(Cur, n)

\* A resize to mobile width happened while section 3 was zoomed on desktop.
C8_Witness ==
    /\ DesktopToMobile
    /\ ZoomedOn(pre, 3)
    /\ ZoomedOn(Cur, 3)
    /\ "mobile-mode" \in classList

\* ------------------------------------------------------------------------
\* C9
\* ------------------------------------------------------------------------

\* C9: after a resize from mobile width to desktop width with mobile-mode
\* set, the timeline is Idle and mobile-mode is cleared, whichever section
\* was zoomed; a resize to desktop width with mobile-mode not set leaves the
\* zoom state unchanged.
C9_ResizeToDesktop ==
    /\ (MobileToDesktop /\ "mobile-mode" \in pre.classList)
           => (Idle(Cur) /\ "mobile-mode" \notin classList)
    /\ (lastEvent.type = "resize" /\ ~ isMobile(Cur)
            /\ "mobile-mode" \notin pre.classList)
           => ZoomState(Cur) = ZoomState(pre)

\* A resize to desktop width happened while section 2 was zoomed on mobile.
C9_Witness ==
    /\ MobileToDesktop
    /\ "mobile-mode" \in pre.classList
    /\ ZoomedOn(pre, 2)
    /\ Idle(Cur)

\* ------------------------------------------------------------------------
\* C10
\* ------------------------------------------------------------------------

\* C10: on desktop while Idle, ArrowLeft and ArrowRight leave the zoomed
\* flag and currentSection unchanged; on desktop while zoomed and on mobile,
\* ArrowLeft moves to the section before and ArrowRight to the section after
\* when there is one.
C10_ArrowKeys ==
    (ArrowLeftPressed \/ ArrowRightPressed) =>
        IF ~ isMobile(pre) /\ "zoomed" \notin pre.classList
        THEN ZoomState(Cur) = ZoomState(pre)
        ELSE /\ (ArrowLeftPressed /\ pre.currentSection > 1)
                    => ZoomedOn(Cur, pre.currentSection - 1)
             /\ (ArrowRightPressed /\ pre.currentSection < totalSections)
                    => ZoomedOn(Cur, pre.currentSection + 1)

\* ArrowRight was pressed on desktop while Idle with section 2 current.
C10_Witness ==
    /\ ArrowRightPressed
    /\ ~ isMobile(pre)
    /\ Idle(pre)
    /\ pre.currentSection = 2
    /\ Idle(Cur)
    /\ currentSection = 2

\* ------------------------------------------------------------------------
\* C11
\* ------------------------------------------------------------------------

\* C11: on mobile a hot-zone click or a background click leaves the timeline
\* state unchanged; on desktop a hot-zone click never zooms out, and a
\* background click (outside every hot-zone) gives Idle when the timeline was
\* zoomed and changes nothing when it was not.
C11_ClicksDesktopOnly ==
    /\ ((lastEvent.type = "sectionClick" \/ lastEvent.type = "svgClick")
            /\ isMobile(pre))
           => TimelineState(Cur) = TimelineState(pre)
    /\ (lastEvent.type = "sectionClick" /\ ~ isMobile(pre))
           => "zoomed" \in classList
    /\ (lastEvent.type = "svgClick" /\ ~ isMobile(pre))
           => IF "zoomed" \in pre.classList
              THEN Idle(Cur)
              ELSE TimelineState(Cur) = TimelineState(pre)

\* The hot-zone of section 3 was clicked on mobile while section 1 was zoomed.
C11_Witness ==
    /\ lastEvent = [type |-> "sectionClick", arg |-> "3"]
    /\ isMobile(pre)
    /\ ZoomedOn(pre, 1)
    /\ ZoomedOn(Cur, 1)

\* ------------------------------------------------------------------------
\* C12
\* ------------------------------------------------------------------------

\* C12: the toggle, sidebar and overlay flags are equal in every reachable
\* state; a hamburger click inverts the sidebar, and when it opens it the
\* page scroll is suspended in the same step.
C12_SidebarFlagsAgree ==
    /\ menuToggleActive = sidebarNavActive
    /\ sidebarOverlayActive = sidebarNavActive
    /\ lastEvent.type = "menuToggleClick"
           => /\ sidebarNavActive = ~ pre.sidebarNavActive
              /\ sidebarNavActive => bodyOverflow = "hidden"

\* The hamburger was clicked with the sidebar closed.
C12_Witness ==
    /\ lastEvent.type = "menuToggleClick"
    /\ SidebarState(pre) = <<FALSE, FALSE, FALSE>>
    /\ SidebarState(Cur) = <<TRUE, TRUE, TRUE>>
    /\ bodyOverflow = "hidden"

\* ------------------------------------------------------------------------
\* C13
\* ------------------------------------------------------------------------

\* C13: after a click on the overlay or on any link inside the sidebar made
\* while the sidebar was open, the sidebar, overlay and toggle are inactive.
C13_OverlayAndLinksClose ==
    ((lastEvent.type = "overlayClick" \/ lastEvent.type = "sidebarLinkClick")
         /\ pre.sidebarNavActive)
        => SidebarState(Cur) = <<FALSE, FALSE, FALSE>>

\* A sidebar link that is no in-page anchor was clicked with the sidebar open.
C13_Witness ==
    /\ lastEvent = [type |-> "sidebarLinkClick", arg |-> "impressum.html"]
    /\ SidebarState(pre) = <<TRUE, TRUE, TRUE>>
    /\ SidebarState(Cur) = <<FALSE, FALSE, FALSE>>

\* ------------------------------------------------------------------------
\* C14
\* ------------------------------------------------------------------------

LinkClicked ==
    lastEvent.type = "linkClick" \/ lastEvent.type = "sidebarLinkClick"

\* The window.scrollTo and history.pushState calls of the last event, in order.
BrowserCalls ==
    SelectSeq(calls, LAMBDA c : c.fn = "scrollTo" \/ c.fn = "pushState")

\* The values of navbar.offsetHeight the listeners of the last event read.
OffsetHeightReads == SelectSeq(calls, LAMBDA c : c.fn = "offsetHeight")

\* C14: a click on an in-page link whose target exists makes exactly one
\* scroll request, to the target's document-relative top minus the navbar
\* height, and then pushes the href on the history; on a sidebar link the
\* request is made with the sidebar closed and the scroll lock released; a
\* click on an in-page link without target makes no request and no push.
C14_SmoothScroll ==
    (LinkClicked /\ lastEvent.arg \in InPageHrefs) =>
        IF lastEvent.arg \in DOMAIN TargetTops
        THEN /\ Len(BrowserCalls) = 2
             /\ BrowserCalls[1].fn = "scrollTo"
             /\ Len(OffsetHeightReads) = 1
             /\ BrowserCalls[1].top =
                    TargetTops[lastEvent.arg] - OffsetHeightReads[1].top
             /\ BrowserCalls[2].fn = "pushState"
             /\ BrowserCalls[2].href = lastEvent.arg
             /\ lastEvent.type = "sidebarLinkClick"
                    => /\ ~ BrowserCalls[1].sidebar
                       /\ BrowserCalls[1].overflow = ""
        ELSE BrowserCalls = <<>>

\* The sidebar link to #about was clicked with the sidebar open and the page
\* scrolled past the threshold and the navbar 80 pixels high; the request is
\* for 50 - 80.
C14_Witness ==
    /\ lastEvent = [type |-> "sidebarLinkClick", arg |-> "#about"]
    /\ pre.sidebarNavActive
    /\ pre.scrollY > ScrollThreshold
    /\ Len(BrowserCalls) = 2
    /\ OffsetHeightReads[1].top = 80
    /\ BrowserCalls[1].top = -30

\* ------------------------------------------------------------------------
\* C15
\* ------------------------------------------------------------------------

\* C15: opening a modal makes it active and suspends page scroll; closing a
\* modal by its close button or backdrop makes it inactive and restores page
\* scroll, also while the other modal is still active.
C15_ModalScrollLock ==
    /\ lastEvent.type = "cardClick"
           => (modalActive[lastEvent.arg] /\ bodyOverflow = "hidden")
    /\ (lastEvent.type = "modalCloseClick" \/ lastEvent.type = "backdropClick")
           => (~ modalActive[lastEvent.arg] /\ bodyOverflow = "")

\* The achievement modal was closed while both modals were open: the partner
\* modal is still active and the page scrolls again.
C15_Witness ==
    /\ lastEvent = [type |-> "modalCloseClick", arg |-> "achievementModal"]
    /\ \A m \in Modals : pre.modalActive[m]
    /\ pre.bodyOverflow = "hidden"
    /\ modalActive["partnerModal"]
    /\ bodyOverflow = ""

\* ------------------------------------------------------------------------
\* C16
\* ------------------------------------------------------------------------

\* C16: a click on a modal's backdrop closes it; a click on its close button
\* closes it and the modal's own click listener does not run; a click inside
\* its content region leaves every modal as it was, for the modal set up
\* with a contentElement and for the one set up without.
C16_ModalClicks ==
    /\ lastEvent.type = "backdropClick" => ~ modalActive[lastEvent.arg]
    /\ lastEvent.type = "modalCloseClick"
           => /\ ~ modalActive[lastEvent.arg]
              /\ \A i \in 1..Len(calls) : calls[i].fn # "modal.click"
    /\ lastEvent.type = "contentClick"
           => /\ modalActive = pre.modalActive
              /\ bodyOverflow = pre.bodyOverflow

\* The content of the open achievement modal (set up without contentElement)
\* was clicked: the click reached the modal's listener and the modal is open.
C16_Witness ==
    /\ lastEvent = [type |-> "contentClick", arg |-> "achievementModal"]
    /\ pre.modalActive["achievementModal"]
    /\ Len(calls) = 1
    /\ calls[1].fn = "modal.click"
    /\ modalActive["achievementModal"]

\* ------------------------------------------------------------------------
\* C17
\* ------------------------------------------------------------------------

Toggled == lastEvent.type = "toggleChange"

Loaded == lastEvent.type = "init" \/ lastEvent.type = "reload"

\* C17: after a switch to de and back to en every translatable element shows
\* exactly the text it had when the page was loaded, on every page: also an
\* element authored with the empty text, and elements that share one key.
C17_RoundTrip ==
    (Toggled /\ currentLang = "en")
        => \A i \in DOMAIN elements : texts[i] = elements[i].text

\* ------------------------------------------------------------------------
\* C18
\* ------------------------------------------------------------------------

\* C18: after a switch to de every tagged element whose key is in the table
\* shows the table's string, and every tagged element whose key is not in
\* the table shows the text it showed before the switch.
C18_SwitchToDe ==
    (Toggled /\ currentLang = "de")
        => \A i \in DOMAIN elements :
               IF elements[i].key \in DOMAIN TranslationsDe
               THEN texts[i] = TranslationsDe[elements[i].key]
               ELSE texts[i] = pre.texts[i]

\* The locale was switched to de on a page with a translated element and an
\* element whose key is missing and whose text is not empty.
C18_Witness ==
    /\ Toggled
    /\ currentLang = "de"
    /\ Len(elements) = 2
    /\ elements[1] = [key |-> "footer.contact", text |-> "Contact"]
    /\ elements[2] = [key |-> "footer.imprint", text |-> "Values"]
    /\ texts = <<"Kontakt", "Values">>

\* ------------------------------------------------------------------------
\* C19
\* ------------------------------------------------------------------------

\* C19: after a page load the locale is de exactly when the stored
\* preference is 'de'; otherwise it is en, the toggle is unchecked and every
\* element shows its authored text.
C19_StartupLocale ==
    Loaded =>
        /\ currentLang = "de" <=> storage = {"de"}
        /\ storage # {"de"}
               => /\ currentLang = "en"
                  /\ ~ toggleChecked
                  /\ \A i \in DOMAIN elements : texts[i] = elements[i].text

\* The page was loaded with the stored preference 'fr' and a translatable
\* element: the locale is en and the element shows its authored text.
C19_Witness ==
    /\ Loaded
    /\ storage = {"fr"}
    /\ currentLang = "en"
    /\ Len(elements) = 1
    /\ elements[1].key = "footer.values"
    /\ texts = <<"Values">>

\* ------------------------------------------------------------------------
\* C20
\* ------------------------------------------------------------------------

\* C20: after a toggle change the stored preference, the toggle position and
\* the document's lang attribute all equal the current locale; after a
\* reload the locale is the one that was active before the reload.
C20_PreferencePersists ==
    /\ Toggled
           => /\ storage = {currentLang}
              /\ currentLang = (IF toggleChecked THEN "de" ELSE "en")
              /\ documentLang = currentLang
    /\ lastEvent.type = "reload" => currentLang = pre.currentLang

\* The page was reloaded while de was active: de is active again, the toggle
\* is checked and 'de' is stored.
C20_Witness ==
    /\ lastEvent.type = "reload"
    /\ pre.currentLang = "de"
    /\ currentLang = "de"
    /\ toggleChecked
    /\ storage = {"de"}

\* ------------------------------------------------------------------------
\* C21
\* ------------------------------------------------------------------------

\* The class writes of the last event on the navbar's 'scrolled' class.
ClassWrites == {i \in 1..Len(calls) : calls[i].fn = "classList.toggle"}

\* C21: after every scroll event the navbar carries 'scrolled' exactly when
\* the scroll position is strictly greater than 100; the event writes the
\* class once when the position crossed the threshold and not at all when it
\* stayed on the same side.
C21_NavbarScrolled ==
    lastEvent.type = "scroll" =>
        /\ navbarScrolled <=> scrollY > ScrollThreshold
        /\ IF (scrollY > ScrollThreshold) # (pre.scrollY > ScrollThreshold)
           THEN Cardinality(ClassWrites) = 1
           ELSE ClassWrites = {}

\* The page was scrolled from above the threshold to exactly 100: the class
\* was written and is off.
C21_Witness ==
    /\ lastEvent.type = "scroll"
    /\ pre.scrollY > ScrollThreshold
    /\ pre.navbarScrolled
    /\ scrollY = ScrollThreshold
    /\ ~ navbarScrolled
    /\ Cardinality(ClassWrites) = 1

\* ------------------------------------------------------------------------
\* C26
\* ------------------------------------------------------------------------

\* The sidebar or a modal is open.
AnyOpen(s) == s.sidebarNavActive \/ \E m \in Modals : s.modalActive[m]

\* Page scroll is suspended in s if anything is open in s.
ScrollLocked(s) == AnyOpen(s) => s.bodyOverflow = "hidden"

\* The last event ran openSidebar or Modal.open.
Opening ==
    \/ lastEvent.type = "cardClick"
    \/ lastEvent.type = "menuToggleClick" /\ ~ pre.sidebarNavActive

\* The last event ran closeSidebar or Modal.close.
Closing ==
    \/ lastEvent.type \in {"modalCloseClick", "backdropClick", "overlayClick",
                           "sidebarLinkClick"}
    \/ lastEvent.type = "menuToggleClick" /\ pre.sidebarNavActive
    \/ EscapePressed /\ FirstOpen(pre) \in 1..3

\* C26 as stated: whenever the sidebar or a modal is open, page scroll is
\* suspended.
C26_Original == ScrollLocked(Cur)

\* C26: every event that opens the sidebar or a modal suspends page scroll,
\* and 'open implies suspended' is lost only by an event that runs
\* closeSidebar or Modal.close while another of the three stays open.
C26_LockedUntilAClose ==
    /\ Opening => bodyOverflow = "hidden"
    /\ (ScrollLocked(pre) /\ ~ ScrollLocked(Cur)) => Closing

\* The achievement modal was closed over the open sidebar: the sidebar is
\* still open and the page scrolls again.
C26_Witness ==
    /\ lastEvent = [type |-> "modalCloseClick", arg |-> "achievementModal"]
    /\ pre.sidebarNavActive
    /\ pre.modalActive["achievementModal"]
    /\ pre.bodyOverflow = "hidden"
    /\ sidebarNavActive
    /\ bodyOverflow = ""

\* ------------------------------------------------------------------------
\* C27
\* ------------------------------------------------------------------------

\* C27: in every reachable state in which page scroll is suspended, the
\* achievement modal, the partner modal or the sidebar is open.
C27_LockedImpliesOpen == bodyOverflow = "hidden" => AnyOpen(Cur)

\* The sidebar was closed by its overlay while a modal was open: page scroll
\* is restored, so nothing is left locked.
C27_Witness ==
    /\ lastEvent.type = "overlayClick"
    /\ pre.sidebarNavActive
    /\ pre.modalActive["partnerModal"]
    /\ pre.bodyOverflow = "hidden"
    /\ ~ sidebarNavActive
    /\ bodyOverflow = ""

\* ------------------------------------------------------------------------
\* C28
\* ------------------------------------------------------------------------

\* C28: in every reachable state the container carries at most one
\* zoom-section class, it carries one exactly when it carries 'zoomed', and
\* the number of that class is Timeline.currentSection.
C28_OneSectionClass ==
    /\ Cardinality(classList \cap ZoomSectionClasses) <= 1
    /\ (classList \cap ZoomSectionClasses # {}) <=> isZoomed(Cur)
    /\ classList \cap ZoomSectionClasses
           \subseteq {"zoom-section-" \o ToString(currentSection)}

\* The timeline was zoomed from section 1 to section 3 by a hot-zone click.
C28_Witness ==
    /\ lastEvent = [type |-> "sectionClick", arg |-> "3"]
    /\ ZoomedOn(pre, 1)
    /\ ZoomedOn(Cur, 3)

\* ------------------------------------------------------------------------
\* C29
\* ------------------------------------------------------------------------

MobileMode(s) == "mobile-mode" \in s.classList

\* C29: after initialization and after every resize event the container
\* carries mobile-mode exactly when the viewport width is <= 768, and every
\* other event leaves the mobile-mode class as it was.
C29_MobileMode ==
    IF lastEvent.type \in {"init", "resize"}
    THEN MobileMode(Cur) <=> innerWidth <= MobileBreakpoint
    ELSE MobileMode(Cur) <=> MobileMode(pre)

\* The viewport was resized from a mobile width to a desktop width: the
\* mobile-mode class is gone.
C29_Witness ==
    /\ lastEvent.type = "resize"
    /\ MobileMode(pre)
    /\ pre.innerWidth = MobileBreakpoint
    /\ innerWidth = MobileBreakpoint + 1
    /\ ~ MobileMode(Cur)

\* ------------------------------------------------------------------------
\* C30
\* ------------------------------------------------------------------------

RECURSIVE EscapeTimes(_, _)
\* The state after n Escape presses in a row, starting from s.
EscapeTimes(s, n) ==
    IF n = 0 THEN s ELSE onKeydown(EscapeTimes(s, n - 1), "Escape")

\* No modal is active, the sidebar is closed and the timeline is not zoomed.
Quiet(s) == \A i \in DOMAIN Contexts : ~ IsOpen(s, Contexts[i])

\* C30: on a desktop viewport, from every reachable state, at most four
\* Escape presses in a row lead to a state with no modal active, the sidebar
\* closed and the timeline not zoomed, and an Escape press in such a state
\* changes nothing.
C30_EscapeSettles ==
    ~ isMobile(Cur) =>
        /\ \E n \in 0..Len(Contexts) : Quiet(EscapeTimes(Cur, n))
        /\ Quiet(Cur) => onKeydown(Cur, "Escape") = Cur
        /\ (EscapePressed /\ Quiet(pre)) => Cur = pre

\* Escape was pressed on desktop with both modals, the sidebar and the zoom
\* open: three more presses are needed, and are enough, to close everything.
C30_Witness ==
    /\ EscapePressed
    /\ ~ isMobile(Cur)
    /\ \A i \in DOMAIN Contexts : IsOpen(pre, Contexts[i])
    /\ ~ Quiet(EscapeTimes(Cur, 2))
    /\ Quiet(EscapeTimes(Cur, 3))
    /\ EscapeTimes(Cur, 4) = EscapeTimes(Cur, 3)

\* ------------------------------------------------------------------------
\* C22
\* ------------------------------------------------------------------------

\* What the achievement modal displays: the five text fields, and the quote
\* in quotation marks when the quote element is shown.
Displayed(s) ==
    [f \in Fields |->
        IF f = "quote" /\ s.quoteDisplay # "block" THEN "(hidden)"
        ELSE s.modalContent[f]]

\* The field of a card as the locale resolves it: the table's string when
\* the locale is de and the table has the key, the card's attribute otherwise.
Resolved(lang, card, f) ==
    LET key == "achievements." \o card.achievement \o "." \o f
    IN  IF lang = "de" /\ key \in DOMAIN TranslationsDe
        THEN TranslationsDe[key] ELSE card[f]

CardClicked ==
    lastEvent.type = "carouselClick" /\ lastEvent.arg \in DOMAIN AchievementCards

\* C22: after a click on an achievement card the modal is open and displays,
\* field by field, the card as resolved in the locale current at the click
\* (the quote in quotation marks, or hidden when it resolves to nothing); a
\* locale toggle while the modal is open leaves what it displays unchanged.
C22_PayloadAtOpen ==
    /\ CardClicked =>
           LET card == AchievementCards[lastEvent.arg]
               quote == Resolved(pre.currentLang, card, "quote")
           IN  /\ modalActive["achievementModal"]
               /\ \A f \in Fields \ {"quote"} :
                      Displayed(Cur)[f] = Resolved(pre.currentLang, card, f)
               /\ Displayed(Cur).quote =
                      IF quote = "" THEN "(hidden)" ELSE "\"" \o quote \o "\""
    /\ (Toggled /\ pre.modalActive["achievementModal"])
           => /\ Displayed(Cur) = Displayed(pre)
              /\ modalActive["achievementModal"]

\* The locale was switched from de to en while the modal showed the 'swiss'
\* card opened in de: it still shows the German title and the card's own quote.
C22_Witness ==
    /\ Toggled
    /\ pre.currentLang = "de"
    /\ currentLang = "en"
    /\ modalActive["achievementModal"]
    /\ Displayed(Cur).title = "Schweizer Meisterschaften 2024"
    /\ Displayed(Cur).quote = "\"Hard work pays off.\""
    /\ Displayed(Cur).description # ""

\* ------------------------------------------------------------------------
\* C23
\* ------------------------------------------------------------------------

Max(a, b) == IF a >= b THEN a ELSE b

Abs(a) == IF a >= 0 THEN a ELSE 0 - a

\* The loop has just written the thumbnail of the single file.
Created == Len(log) = 1 /\ log[1].outcome = "created"

\* C23: a thumbnail written for a W x H source has, on both axes, the size
\* of the source times min(300/W, 300/H) = 300/max(W, H) rounded to whole
\* pixels; its larger dimension does not exceed 300, its aspect ratio is the
\* source's up to that rounding, and for 1200 x 800 it is exactly 300 x 200.
C23_ThumbnailSize ==
    Created =>
        LET W == imageFiles[1].width
            H == imageFiles[1].height
            L == Max(W, H)
            w == thumbnails[1].width
            h == thumbnails[1].height
        IN  /\ 2 * Abs(w * L - W * MaxSize) <= L
            /\ 2 * Abs(h * L - H * MaxSize) <= L
            /\ Max(w, h) <= MaxSize
            /\ 2 * Abs(w * H - h * W) <= L
            /\ (W = 1200 /\ H = 800) => (w = 300 /\ h = 200)

\* The thumbnail of a 1200 x 800 source was written: it is 300 x 200.
C23_Witness ==
    /\ Created
    /\ imageFiles[1].width = 1200
    /\ imageFiles[1].height = 800
    /\ thumbnails[1].exists
    /\ thumbnails[1].width = 300
    /\ thumbnails[1].height = 200

\* ------------------------------------------------------------------------
\* C24
\* ------------------------------------------------------------------------

\* The files of the log with the given outcome.
Files(outcome) == {log[i].file : i \in {j \in 1..Len(log) : log[j].outcome = outcome}}

VisitedInOrder ==
    scriptPc \in {"foreach", "done"} =>
        /\ Len(log) = img - 1
        /\ \A i \in 1..Len(log) : log[i].file = i
        /\ count = Cardinality(Files("created"))
        /\ \A i \in 1..Len(log) :
               log[i].outcome # "created" => thumbnails[i] = atStart[i]

\* The summary is printed after the last file.
SummaryAfterAll == scriptPc = "done" => Len(log) = Len(imageFiles)

\* C25: the loop visits every file once, in order; a failure on a file is
\* logged and the loop goes on; every run reaches the summary, and the count
\* it reports is the number of thumbnails written in the run, the skipped
\* and the failed files not counted.
C25_BatchCompletes ==
    /\ [](VisitedInOrder /\ SummaryAfterAll)
    /\ (scriptPc = "foreach") ~> (scriptPc = "done")

\* The summary was printed with count 1 after a failure on the first file
\* and a thumbnail written for the second.
C25_Witness ==
    /\ scriptPc = "done"
    /\ log = <<[file |-> 1, outcome |-> "error"], [file |-> 2, outcome |-> "created"]>>
    /\ count = 1
    /\ thumbnails[2].exists
    /\ ~ thumbnails[1].exists

====
